---- MODULE Spec2Model ----
(***************************************************************************)
(* Model of the code-execution core of Codetest-AI:                        *)
(*   backend/app/services/sandbox.py   (executors, execute_testcase)       *)
(*   backend/app/routers/execution.py  (execute_code batch runner)         *)
(*   backend/app/routers/submission.py (submit_solution batch runner)      *)
(*                                                                         *)
(* A Python str is a sequence of atoms.  An atom is either one character   *)
(* ("3", " ", "{") or a fixed message text that contains no whitespace at  *)
(* its ends as far as the code ever looks at it ("Time limit exceeded").   *)
(* f-string formatting is concatenation of such sequences.                 *)
(***************************************************************************)
EXTENDS Integers, Sequences, FiniteSets, TLC

(***************************************************************************)
(* Strings                                                                 *)
(***************************************************************************)

\* Python None (Optional[str] fields); no Python str equals it.
None == <<"<None>">>

\* characters str.strip() removes
Whitespace == {" ", "\n", "\t", "\r"}

RECURSIVE LStrip(_)
LStrip(s) ==
    IF s # <<>> /\ Head(s) \in Whitespace THEN LStrip(Tail(s)) ELSE s

RECURSIVE RStrip(_)
RStrip(s) ==
    IF s # <<>> /\ s[Len(s)] \in Whitespace
    THEN RStrip(SubSeq(s, 1, Len(s) - 1))
    ELSE s

\* str.strip()
Strip(s) == RStrip(LStrip(s))

\* truth value of an Optional[str]: None and "" are falsy
Truthy(s) == s # None /\ s # <<>>

(***************************************************************************)
(* json.loads, as far as the character set of the model goes: objects,     *)
(* arrays, strings without escapes, numbers, true/false/null and the       *)
(* constants NaN, Infinity, -Infinity that Python's decoder accepts.       *)
(* Parsed values are records tagged by t:                                  *)
(*   null | bool(n) | num(n, d) = n / 10^d | nan | inf(n = sign)           *)
(*   | str(s) | arr(a) | obj(k, v) with k[i] the key of v[i]               *)
(***************************************************************************)

JsonWs == {" ", "\n", "\t", "\r"}

Digits == <<"0", "1", "2", "3", "4", "5", "6", "7", "8", "9">>

IsDigit(c) == \E j \in 1..Len(Digits) : Digits[j] = c

DigitVal(c) == (CHOOSE j \in 1..Len(Digits) : Digits[j] = c) - 1

RECURSIVE Pow10(_)
Pow10(d) == IF d = 0 THEN 1 ELSE 10 * Pow10(d - 1)

ParseFail == [ok |-> FALSE, pos |-> 0, val |-> [t |-> "null"]]

ParseOk(v, p) == [ok |-> TRUE, pos |-> p, val |-> v]

RECURSIVE SkipWs(_, _)
SkipWs(s, p) ==
    IF p <= Len(s) /\ s[p] \in JsonWs THEN SkipWs(s, p + 1) ELSE p

\* does the text lit start at position p of s
StartsWith(s, p, lit) ==
    /\ p + Len(lit) - 1 <= Len(s)
    /\ \A j \in 1..Len(lit) : s[p + j - 1] = lit[j]

\* end (exclusive) of the run of digits that starts at p
RECURSIVE DigitsEnd(_, _)
DigitsEnd(s, p) ==
    IF p <= Len(s) /\ IsDigit(s[p]) THEN DigitsEnd(s, p + 1) ELSE p

\* value of the digits s[p..q-1]
RECURSIVE DigitsVal(_, _, _)
DigitsVal(s, p, q) ==
    IF p >= q THEN 0 ELSE DigitsVal(s, p, q - 1) * 10 + DigitVal(s[q - 1])

\* NUMBER_RE: (-?(?:0|[1-9]\d*))(\.\d+)?([eE][-+]?\d+)?
\* end (exclusive) of the integer part that starts at p1
IntEnd(s, p1) ==
    IF p1 <= Len(s) /\ s[p1] = "0" THEN p1 + 1 ELSE DigitsEnd(s, p1)

\* end (exclusive) of the fraction, if one follows the integer part
FracEnd(s, iend) ==
    IF iend + 1 <= Len(s) /\ s[iend] = "." /\ IsDigit(s[iend + 1])
    THEN DigitsEnd(s, iend + 1)
    ELSE iend

\* position of the first exponent digit, 0 when no exponent follows
ExpStart(s, fend) ==
    IF fend > Len(s) \/ s[fend] \notin {"e", "E"} THEN 0
    ELSE IF fend + 1 <= Len(s) /\ IsDigit(s[fend + 1]) THEN fend + 1
    ELSE IF /\ fend + 2 <= Len(s)
            /\ s[fend + 1] \in {"+", "-"}
            /\ IsDigit(s[fend + 2])
    THEN fend + 2
    ELSE 0

\* the number s[p..eend-1]: sign at p, integer part p1..iend-1, fraction
\* iend+1..fend-1, exponent digits estart..eend-1
NumberValue(s, p, p1, iend, fend, estart, eend) ==
    [t |-> "num",
     n |-> (IF p1 > p THEN 0 - 1 ELSE 1)
           * (DigitsVal(s, p1, iend) * Pow10(IF fend > iend THEN fend - iend - 1 ELSE 0)
              + (IF fend > iend THEN DigitsVal(s, iend + 1, fend) ELSE 0))
           * (IF estart # 0 /\ s[estart - 1] # "-"
              THEN Pow10(DigitsVal(s, estart, eend)) ELSE 1),
     d |-> (IF fend > iend THEN fend - iend - 1 ELSE 0)
           + (IF estart # 0 /\ s[estart - 1] = "-"
              THEN DigitsVal(s, estart, eend) ELSE 0)]

ParseExponent(s, p, p1, iend, fend, estart) ==
    IF estart = 0
    THEN ParseOk(NumberValue(s, p, p1, iend, fend, 0, fend), fend)
    ELSE ParseOk(NumberValue(s, p, p1, iend, fend, estart, DigitsEnd(s, estart)),
                 DigitsEnd(s, estart))

ParseFraction(s, p, p1, iend, fend) ==
    ParseExponent(s, p, p1, iend, fend, ExpStart(s, fend))

ParseInteger(s, p, p1, iend) ==
    IF iend = p1 THEN ParseFail
    ELSE ParseFraction(s, p, p1, iend, FracEnd(s, iend))

ParseSigned(s, p, p1) == ParseInteger(s, p, p1, IntEnd(s, p1))

ParseNumber(s, p) ==
    ParseSigned(s, p, IF p <= Len(s) /\ s[p] = "-" THEN p + 1 ELSE p)

\* end (inclusive) of the string literal whose opening quote is at p - 1;
\* 0 when it is unterminated, holds a control character (strict mode) or a
\* backslash (escapes are outside the model's character set)
RECURSIVE StringEnd(_, _)
StringEnd(s, p) ==
    IF p > Len(s) THEN 0
    ELSE IF s[p] = "\"" THEN p
    ELSE IF s[p] \in {"\n", "\t", "\r", "\\"} THEN 0
    ELSE StringEnd(s, p + 1)

StringLiteral(s, p, e) ==
    IF e = 0 THEN ParseFail
    ELSE ParseOk([t |-> "str", s |-> SubSeq(s, p + 1, e - 1)], e + 1)

ParseString(s, p) == StringLiteral(s, p, StringEnd(s, p + 1))

RECURSIVE ParseValue(_, _)
RECURSIVE ParseArrayItems(_, _, _)
RECURSIVE ParseObjectItems(_, _, _, _)

\* JSONArray: item r was parsed, q is past the whitespace after it
ArrayAfterItem(s, acc, r, q) ==
    IF ~r.ok \/ q > Len(s) THEN ParseFail
    ELSE IF s[q] = "]"
    THEN ParseOk([t |-> "arr", a |-> Append(acc, r.val)], q + 1)
    ELSE IF s[q] = ","
    THEN ParseArrayItems(s, SkipWs(s, q + 1), Append(acc, r.val))
    ELSE ParseFail

ArrayItem(s, acc, r) == ArrayAfterItem(s, acc, r, SkipWs(s, r.pos))

\* JSONArray after "[": p is at the next item, acc the items so far
ParseArrayItems(s, p, acc) == ArrayItem(s, acc, ParseValue(s, p))

\* JSONObject: the pair (key, r) was parsed, q is past the whitespace after it
ObjectAfterPair(s, ks, vs, key, r, q) ==
    IF ~r.ok \/ q > Len(s) THEN ParseFail
    ELSE IF s[q] = "}"
    THEN ParseOk([t |-> "obj", k |-> Append(ks, key), v |-> Append(vs, r.val)],
                 q + 1)
    ELSE IF s[q] = ","
    THEN ParseObjectItems(s, SkipWs(s, q + 1), Append(ks, key), Append(vs, r.val))
    ELSE ParseFail

ObjectPair(s, ks, vs, key, r) ==
    ObjectAfterPair(s, ks, vs, key, r, SkipWs(s, r.pos))

\* JSONObject: key k was parsed, c is past the whitespace after it
ObjectAfterKey(s, ks, vs, k, c) ==
    IF ~k.ok \/ c > Len(s) \/ s[c] # ":" THEN ParseFail
    ELSE ObjectPair(s, ks, vs, k.val.s, ParseValue(s, SkipWs(s, c + 1)))

ObjectKey(s, ks, vs, k) == ObjectAfterKey(s, ks, vs, k, SkipWs(s, k.pos))

\* JSONObject after "{": p is at the opening quote of the next key
ParseObjectItems(s, p, ks, vs) ==
    IF p > Len(s) \/ s[p] # "\"" THEN ParseFail
    ELSE ObjectKey(s, ks, vs, ParseString(s, p))

ParseObject(s, q) ==
    IF q <= Len(s) /\ s[q] = "}"
    THEN ParseOk([t |-> "obj", k |-> <<>>, v |-> <<>>], q + 1)
    ELSE ParseObjectItems(s, q, <<>>, <<>>)

ParseArray(s, q) ==
    IF q <= Len(s) /\ s[q] = "]"
    THEN ParseOk([t |-> "arr", a |-> <<>>], q + 1)
    ELSE ParseArrayItems(s, q, <<>>)

\* the number at p, or else one of the constants NaN, Infinity, -Infinity
NumberOrConstant(s, p, num) ==
    IF num.ok THEN num
    ELSE IF StartsWith(s, p, <<"N", "a", "N">>)
    THEN ParseOk([t |-> "nan"], p + 3)
    ELSE IF StartsWith(s, p, <<"I", "n", "f", "i", "n", "i", "t", "y">>)
    THEN ParseOk([t |-> "inf", n |-> 1], p + 8)
    ELSE IF StartsWith(s, p, <<"-", "I", "n", "f", "i", "n", "i", "t", "y">>)
    THEN ParseOk([t |-> "inf", n |-> 0 - 1], p + 9)
    ELSE ParseFail

\* scanner.scan_once at position p
ParseValue(s, p) ==
    IF p > Len(s) THEN ParseFail
    ELSE IF s[p] = "\"" THEN ParseString(s, p)
    ELSE IF s[p] = "{" THEN ParseObject(s, SkipWs(s, p + 1))
    ELSE IF s[p] = "[" THEN ParseArray(s, SkipWs(s, p + 1))
    ELSE IF StartsWith(s, p, <<"n", "u", "l", "l">>)
    THEN ParseOk([t |-> "null"], p + 4)
    ELSE IF StartsWith(s, p, <<"t", "r", "u", "e">>)
    THEN ParseOk([t |-> "bool", n |-> 1, d |-> 0], p + 4)
    ELSE IF StartsWith(s, p, <<"f", "a", "l", "s", "e">>)
    THEN ParseOk([t |-> "bool", n |-> 0, d |-> 0], p + 5)
    ELSE NumberOrConstant(s, p, ParseNumber(s, p))

\* the decoder's check that only whitespace follows the value
WholeDocument(s, r) ==
    IF r.ok /\ SkipWs(s, r.pos) = Len(s) + 1 THEN r ELSE ParseFail

\* json.loads(s): ok = FALSE stands for the JSONDecodeError it raises
Loads(s) == WholeDocument(s, ParseValue(s, SkipWs(s, 1)))

IsNumeric(v) == v.t \in {"bool", "num"}

\* the value an object holds for key: the last pair with that key wins
Lookup(o, key) ==
    o.v[CHOOSE j \in 1..Len(o.k) :
            /\ o.k[j] = key
            /\ \A m \in (j + 1)..Len(o.k) : o.k[m] # key]

KeySet(o) == {o.k[j] : j \in 1..Len(o.k)}

\* a is b: the decoder hands out one NaN object, one Infinity, one of each
\* of True, False, None
SameObject(a, b) ==
    \/ a.t = "nan" /\ b.t = "nan"
    \/ a.t = "null" /\ b.t = "null"
    \/ a.t = "inf" /\ b.t = "inf" /\ a.n = b.n
    \/ a.t = "bool" /\ b.t = "bool" /\ a.n = b.n

\* Python's a == b on decoded values: bool is an int (True == 1), an int
\* equals the float of the same value, NaN equals nothing, and containers
\* compare their items with "is" first
RECURSIVE PyEq(_, _)
PyEq(a, b) ==
    CASE IsNumeric(a) /\ IsNumeric(b) -> a.n * Pow10(b.d) = b.n * Pow10(a.d)
      [] a.t = "inf" /\ b.t = "inf" -> a.n = b.n
      [] a.t = "null" /\ b.t = "null" -> TRUE
      [] a.t = "str" /\ b.t = "str" -> a.s = b.s
      [] a.t = "arr" /\ b.t = "arr" ->
            /\ Len(a.a) = Len(b.a)
            /\ \A j \in 1..Len(a.a) :
                  SameObject(a.a[j], b.a[j]) \/ PyEq(a.a[j], b.a[j])
      [] a.t = "obj" /\ b.t = "obj" ->
            /\ KeySet(a) = KeySet(b)
            /\ \A key \in KeySet(a) :
                  \/ SameObject(Lookup(a, key), Lookup(b, key))
                  \/ PyEq(Lookup(a, key), Lookup(b, key))
      [] OTHER -> FALSE

(***************************************************************************)
(* Outcome Comparator: execute_testcase, sandbox.py lines 288-296          *)
(***************************************************************************)

LowerChar(c) ==
    CASE c = "H" -> "h" [] c = "N" -> "n" [] c = "I" -> "i" [] c = "E" -> "e"
      [] OTHER -> c

\* variant: the fallback compares without regard to letter case
StringCompareIgnoreCase(actual, expected) ==
    [j \in 1..Len(actual) |-> LowerChar(actual[j])]
        = [j \in 1..Len(expected) |-> LowerChar(expected[j])]

\* the bare except's fallback
StringCompare(actual, expected) == actual = expected

\* obj_actual == obj_expected, or the bare except when either json.loads
\* raised
CompareLoaded(actual, expected, a, e) ==
    IF ~a.ok \/ ~e.ok
    THEN StringCompare(actual, expected)
    ELSE PyEq(a.val, e.val)

\* passed, for the stripped actual and expected
ComparePassed(actual, expected) ==
    CompareLoaded(actual, expected, Loads(actual), Loads(expected))

\* variant: only leading whitespace is removed
NormalizeLeftOnly(s) == LStrip(s)

\* lines 285-286: what the comparator is given
Normalize(s) == Strip(s)

(***************************************************************************)
(* Configuration and registry                                              *)
(***************************************************************************)

\* Settings.code_timeout_seconds, Settings.code_memory_limit_mb
code_timeout_seconds == 10
code_memory_limit_mb == 256

\* ExecutionRequest.language: pattern ^(python|cpp|java)$
SchemaLanguages == {"python", "cpp", "java"}

LANGUAGE_CONFIG ==
    [l \in {"python"} |->
        [extension |-> ".py", compile_cmd |-> None,
         run_cmd |-> <<"python3 ", "{file}">>, image |-> "python:3.11-slim"]]

\* timeout= of the compile step, run_code_locally line 94
compile_timeout_seconds == 30

(***************************************************************************)
(* Bounds of the model                                                     *)
(***************************************************************************)

\* longest testcase list of a request
MaxCases == 2

\* seconds of teardown allowed past the timeout before a run counts as
\* running away
Grace == 1

\* request-supplied (timeout_seconds, memory_limit_mb), within the schema's
\* ranges 1..30 and 64..512, below and above the configured maxima
RequestLimits == {<<2, 64>>, <<30, 512>>}

\* what the user program may write to stdout and to stderr
Stdouts == {<<"3", "\n">>, <<"4">>}
Stderrs == {<<>>, <<"\n">>, <<"E">>}

\* the i-th testcase (1-based) of a request: (input, expected_output)
TestcaseAt(j) ==
    IF j % 2 = 1
    THEN [input |-> <<"1">>, expected_output |-> <<"3", "\n">>]
    ELSE [input |-> <<"'", "2">>, expected_output |-> <<"4">>]

\* instants at which the clock of a run is observed, in seconds
ClockPoints(T) == {T, T + Grace + 1}

NextClock(T, e) ==
    CHOOSE c \in ClockPoints(T) :
        c > e /\ \A c2 \in ClockPoints(T) : c2 > e => c <= c2

(***************************************************************************)
(* Records of sandbox.py and schemas/execution.py                          *)
(***************************************************************************)

\* execution_time_ms is a float in the source; the model keeps durations in
\* fixed point with three decimal places, as integers counting thousandths
\* of a millisecond
Millis(n) == n * 1000

\* (end_time - start_time) * 1000 for a run of e seconds
ElapsedMs(e) == Millis(e * 1000)

\* dataclass ExecutionResult
ExecutionResult(output, time_ms, mem, error, timed_out) ==
    [output |-> output, execution_time_ms |-> time_ms, memory_used_mb |-> mem,
     error |-> error, timed_out |-> timed_out]

NoResult == ExecutionResult(<<>>, 0, 0, None, FALSE)

\* ExecutionResult(output="", execution_time_ms=0, memory_used_mb=0, error=e)
ErrorResult(e) == ExecutionResult(<<>>, 0, 0, e, FALSE)

\* variant: the message does not name the language
UnsupportedLanguageNoId(language) == ErrorResult(<<"Unsupported language">>)

UnsupportedLanguage(language) ==
    ErrorResult(<<"Unsupported language: ", language>>)

\* str(e) of the exceptions the environment can raise
OSErrorText == <<"[Errno 28] No space left on device">>
DockerErrorText == <<"500 Server Error: image not found">>
SpawnErrorText == <<"[Errno 12] Cannot allocate memory">>
ContainerErrorText == <<"Command returned non-zero exit status 1">>
CompileTimeoutText == <<"Command timed out after 30 seconds">>

\* files: mkstemp names are fresh, input.txt is one fixed name in the
\* directory of the solution file
NoPath == <<"None", 0>>
TmpFile(k) == <<"tmp", k>>
InputFile == <<"input.txt", 0>>

(***************************************************************************)
(* State                                                                   *)
(***************************************************************************)
VARIABLES
    runner,            \* "execute_code" or "submit_solution"
    request,           \* language, testcases, timeout_seconds, memory_limit_mb
    pc,                \* position of the handler
    timeout, memory,   \* limits handed to execute_testcase
    i,                 \* testcases done so far (enumerate index)
    results,           \* list[TestcaseResult]
    runtime_error,     \* first per-case error
    response,          \* what the handler returns: results, summary, runtime_error
    call,              \* arguments of the running run_code_docker call
    localCall,         \* arguments of the running run_code_locally call
    file_path,         \* local variable file_path of the running executor
    input_file_path,   \* local variable input_file_path of run_code_docker
    fs,                \* files on disk
    created,           \* <<file, creating function>> of the running attempt
    nextTmp,           \* mkstemp's supply of fresh names
    elapsed,           \* seconds since the child process / container started
    ret,               \* return value of run_code_locally
    result,            \* return value of the executor, in execute_testcase
    unlinkFailed,      \* an os.unlink of this batch raised
    runs,              \* runs[j]: execute_testcase calls for testcase j
    completed,         \* what the child process or the container ended with
    written,           \* <<file, testcase index>>: files written in this batch
    registry,          \* the module-level dict LANGUAGE_CONFIG
    compile_result,    \* CompletedProcess of the compile step
    container,         \* the container containers.run started
    stdin,             \* what the user program is given on standard input
    total_time_ms,     \* submit_solution: the durations added up so far
    max_memory_mb      \* submit_solution: the largest memory figure so far

vars == <<runner, request, pc, timeout, memory, i, results, runtime_error,
          response, call, localCall, file_path, input_file_path, fs, created,
          nextTmp, elapsed, ret, result, unlinkFailed, runs, completed,
          written, registry, compile_result, container, stdin, total_time_ms,
          max_memory_mb>>

batchVars == <<runner, request, timeout, memory, i, results, runtime_error,
               response, runs>>

NoCall == [language |-> "", input |-> <<>>, timeout_seconds |-> 0,
           memory_limit_mb |-> 0]

NoResponse == [produced |-> FALSE]

\* the CompletedProcess of subprocess.run, or the logs or the ContainerError
\* of containers.run: exit code and what was written to stdout and stderr
CompletedProcess(rc, stdout, stderr) ==
    [returncode |-> rc, stdout |-> stdout, stderr |-> stderr]

\* the user program has not been started
NotStarted == <<"<not started>">>

\* no container exists
NoContainer == [status |-> "none"]

\* no child process or container has ended yet
NoProcess == [returncode |-> -1, stdout |-> <<>>, stderr |-> <<>>]

NumCases == Len(request.testcases)

\* LANGUAGE_CONFIG.get(language) finds a profile
Supported(language) == language \in DOMAIN registry

\* a request for one of languages arrives while the registry is reg
InitBatch(reg, languages) ==
    /\ runner \in {"execute_code", "submit_solution"}
    /\ \E language \in languages, n \in 1..MaxCases, lim \in RequestLimits :
          request = [language |-> language,
                     testcases |-> [j \in 1..n |-> TestcaseAt(j)],
                     timeout_seconds |-> lim[1],
                     memory_limit_mb |-> lim[2]]
    /\ pc = "start"
    /\ timeout = 0
    /\ memory = 0
    /\ i = 0
    /\ results = <<>>
    /\ runtime_error = None
    /\ response = NoResponse
    /\ call = NoCall
    /\ localCall = NoCall
    /\ file_path = NoPath
    /\ input_file_path = NoPath
    /\ fs = {}
    /\ created = {}
    /\ nextTmp = 1
    /\ elapsed = 0
    /\ ret = NoResult
    /\ result = NoResult
    /\ unlinkFailed = FALSE
    /\ runs = [j \in 1..MaxCases |-> 0]
    /\ completed = NoProcess
    /\ written = {}
    /\ registry = reg
    /\ compile_result = NoProcess
    /\ container = NoContainer
    /\ stdin = NotStarted
    /\ total_time_ms = 0
    /\ max_memory_mb = 0

Init == InitBatch(LANGUAGE_CONFIG, SchemaLanguages)

Min(a, b) == IF a <= b THEN a ELSE b
Max(a, b) == IF a >= b THEN a ELSE b

(***************************************************************************)
(* Batch Runner: execute_code and submit_solution                          *)
(***************************************************************************)

\* variant: the requested timeout is passed on as it is
EffectiveTimeoutUncapped == request.timeout_seconds

\* execution.py lines 39-40; submission.py lines 163-164
EffectiveTimeout ==
    IF runner = "execute_code"
    THEN Min(request.timeout_seconds, code_timeout_seconds)
    ELSE code_timeout_seconds

EffectiveMemory ==
    IF runner = "execute_code"
    THEN Min(request.memory_limit_mb, code_memory_limit_mb)
    ELSE code_memory_limit_mb

BeginBatch ==
    /\ pc = "start"
    /\ timeout' = EffectiveTimeout
    /\ memory' = EffectiveMemory
    /\ pc' = "loop"
    /\ UNCHANGED <<runner, request, i, results, runtime_error, response, call,
                   localCall, file_path, input_file_path, fs, created, nextTmp,
                   elapsed, ret, result, unlinkFailed, runs, completed,
                   written, registry, compile_result, container, stdin,
                   total_time_ms, max_memory_mb>>

\* variant: the loop stops after a testcase that reported an error
LoopBreaksOnError(idx, res) ==
    idx < NumCases /\ (IF res = <<>> THEN TRUE ELSE res[Len(res)].error = None)

\* the loop header: is there a testcase left to run, after idx testcases with
\* the results res
LoopHasNext(idx, res) == idx < NumCases

\* for i, testcase in enumerate(...): result = execute_testcase(...,
\* use_docker=True), which calls run_code_docker with the testcase's input
CallExecuteTestcase ==
    /\ pc = "loop"
    /\ LoopHasNext(i, results)
    /\ call' = [language |-> request.language,
                input |-> request.testcases[i + 1].input,
                timeout_seconds |-> timeout,
                memory_limit_mb |-> memory]
    /\ runs' = [runs EXCEPT ![i + 1] = @ + 1]
    /\ localCall' = NoCall
    /\ file_path' = NoPath
    /\ input_file_path' = NoPath
    /\ created' = {}
    /\ elapsed' = 0
    /\ ret' = NoResult
    /\ result' = NoResult
    /\ completed' = NoProcess
    /\ compile_result' = NoProcess
    /\ stdin' = NotStarted
    /\ pc' = "docker_probe"
    /\ UNCHANGED <<runner, request, timeout, memory, i, results, runtime_error,
                   response, fs, nextTmp, unlinkFailed, written, registry,
                   container, total_time_ms, max_memory_mb>>

RECURSIVE SumTime(_)
SumTime(rs) ==
    IF rs = <<>> THEN 0 ELSE rs[1].execution_time_ms + SumTime(Tail(rs))

RECURSIVE MaxMemory(_)
MaxMemory(rs) ==
    IF rs = <<>> THEN 0 ELSE Max(rs[1].memory_used_mb, MaxMemory(Tail(rs)))

PassedCount(rs) == Cardinality({j \in 1..Len(rs) : rs[j].passed})

\* variant: round(x, 2) cuts the digits after the second decimal off
Truncate2(total, n) ==
    IF n = 0 THEN 0 ELSE (total \div (10 * n)) * 10

\* round(total / n if n else 0, 2) on fixed-point durations: the nearest
\* multiple of a hundredth of a millisecond, a tie going to the even one
Round2(total, n) ==
    IF n = 0 THEN 0
    ELSE IF 2 * (total % (10 * n)) < 10 * n THEN (total \div (10 * n)) * 10
    ELSE IF 2 * (total % (10 * n)) > 10 * n THEN (total \div (10 * n)) * 10 + 10
    ELSE IF (total \div (10 * n)) % 2 = 0 THEN (total \div (10 * n)) * 10
    ELSE (total \div (10 * n)) * 10 + 10

\* execution.py lines 58-71 and submission.py lines 176-190.  time_sum_ms
\* and time_count are total_time_ms and len(results) of submit_solution;
\* avg_execution_time_ms is round(avg_time, 2) of execute_code.  The memory
\* figures are whole megabytes or halves, which round(max_memory, 2) leaves
\* as they are.
Summary(rs) ==
    [passed |-> PassedCount(rs),
     failed |-> Len(rs) - PassedCount(rs),
     total |-> Len(rs),
     time_sum_ms |-> SumTime(rs),
     time_count |-> Len(rs),
     avg_execution_time_ms |-> Round2(SumTime(rs), Len(rs)),
     max_memory_mb |-> MaxMemory(rs)]

\* submission.py lines 176-190: passed and total are counted over the list of
\* results, the mean duration is total_time_ms / len(results) and the memory
\* figure is max_memory_mb, both kept by the loop
SubmissionScore(rs, total, peak) ==
    [passed |-> PassedCount(rs),
     total |-> Len(rs),
     time_sum_ms |-> total,
     time_count |-> Len(rs),
     max_memory_mb |-> peak]

FinishBatch ==
    /\ pc = "loop"
    /\ ~LoopHasNext(i, results)
    /\ response' = [produced |-> TRUE, results |-> results,
                    summary |-> IF runner = "execute_code"
                                THEN Summary(results)
                                ELSE SubmissionScore(results, total_time_ms,
                                                     max_memory_mb),
                    runtime_error |-> runtime_error]
    /\ pc' = "done"
    /\ UNCHANGED <<runner, request, timeout, memory, i, results, runtime_error,
                   call, localCall, file_path, input_file_path, fs, created,
                   nextTmp, elapsed, ret, result, unlinkFailed, runs,
                   completed, written, registry, compile_result, container,
                   stdin, total_time_ms, max_memory_mb>>

(***************************************************************************)
(* Source Materializer: create_solution_file                               *)
(***************************************************************************)

\* what the file system does to one create_solution_file call
IoOutcomes == {"ok", "mkstemp_raises", "write_raises", "write_unlink_raise"}

\* create_solution_file(code, language) called from function by: the path it
\* returns or the exception it raises, and the files it leaves
CreateSolutionFile(language, io, by) ==
    LET path == TmpFile(nextTmp)
    IN  IF ~Supported(language)
        THEN [raised |-> TRUE, path |-> NoPath, fs |-> fs, created |-> created,
              unlinkFailed |-> FALSE, nextTmp |-> nextTmp,
              text |-> <<"Unsupported language: ", language>>]
        ELSE IF io = "mkstemp_raises"
        THEN [raised |-> TRUE, path |-> NoPath, fs |-> fs, created |-> created,
              unlinkFailed |-> FALSE, nextTmp |-> nextTmp, text |-> OSErrorText]
        ELSE IF io = "write_raises"
        THEN [raised |-> TRUE, path |-> NoPath, fs |-> fs,
              created |-> created \cup {<<path, by>>},
              unlinkFailed |-> FALSE, nextTmp |-> nextTmp + 1, text |-> OSErrorText]
        ELSE IF io = "write_unlink_raise"
        THEN [raised |-> TRUE, path |-> NoPath, fs |-> fs \cup {path},
              created |-> created \cup {<<path, by>>},
              unlinkFailed |-> TRUE, nextTmp |-> nextTmp + 1, text |-> OSErrorText]
        ELSE [raised |-> FALSE, path |-> path, fs |-> fs \cup {path},
              created |-> created \cup {<<path, by>>},
              unlinkFailed |-> FALSE, nextTmp |-> nextTmp + 1, text |-> <<>>]

\* the files of the batch so far, with those of cs written by the attempt
\* for testcase index i
WrittenBy(cs) == written \cup {<<c[1], i>> : c \in cs}

\* if path and os.path.exists(path): os.unlink(path) has something to delete
Deletes(path) == path # NoPath /\ path \in fs

\* variant: os.unlink leaves the file where it is
UnlinkNothing(files, path) == files

\* os.unlink(path) succeeding
Unlink(files, path) == files \ {path}

\* whether that os.unlink may raise
UnlinkChoices(path) == IF Deletes(path) THEN BOOLEAN ELSE {FALSE}

(***************************************************************************)
(* Local Process Executor: run_code_locally                                *)
(***************************************************************************)

\* the number of single quotes in text s
RECURSIVE QuoteCount(_)
QuoteCount(s) ==
    IF s = <<>> THEN 0
    ELSE (IF s[1] = "'" THEN 1 ELSE 0) + QuoteCount(Tail(s))

\* text s without its single quotes
RECURSIVE Unquoted(_)
Unquoted(s) ==
    IF s = <<>> THEN <<>>
    ELSE (IF s[1] = "'" THEN <<>> ELSE <<s[1]>>) \o Unquoted(Tail(s))

\* subprocess.run(..., input=input_data): the child reads the input as is
LocalStdin(input_data) == input_data

\* lines 217-219 and 226: sh -c "echo '{input_data}' | run_part".  The shell
\* ends the quoted word at the first single quote of the input: with an odd
\* number of quotes the command line does not parse and the program is not
\* started; otherwise echo writes the words joined, and a newline after
\* them.  (Text of the input outside the quotes is shell syntax.)
DockerStdin(input_data) ==
    IF QuoteCount(input_data) % 2 = 1 THEN NotStarted
    ELSE Unquoted(input_data) \o <<"\n">>

\* sh gives up on the command line: exit code 2 and a message on stderr
ShellFailure ==
    CompletedProcess(2, <<>>, <<"sh: 1: Syntax error: Unterminated quoted string">>)

\* lines 135-142
LocalTimeoutResult(T) ==
    ExecutionResult(<<>>, Millis(T * 1000), 0, <<"Time limit exceeded">>, TRUE)

\* lines 117-133: the child exited with code rc after e seconds
LocalExitResult(rc, stdout, stderr, e) ==
    IF rc # 0
    THEN ExecutionResult(Strip(stdout), ElapsedMs(e), 0,
                         IF stderr # <<>> THEN Strip(stderr) ELSE <<"Runtime error">>,
                         FALSE)
    ELSE ExecutionResult(Strip(stdout), ElapsedMs(e), 0, None, FALSE)

\* variant: the message does not carry what the compiler wrote
CompileErrorResultBare(stderr) == ErrorResult(<<"Compilation error">>)

\* lines 96-102
CompileErrorResult(stderr) == ErrorResult(<<"Compilation error: ">> \o stderr)

\* subprocess.run(..., timeout=T) still waits for the child
LocalWaits(T, e) == e < T

\* lines 73-80
LocalLookup ==
    /\ pc = "local_lookup"
    /\ IF Supported(localCall.language)
       THEN /\ pc' = "local_create"
            /\ ret' = ret
       ELSE /\ pc' = "local_return"
            /\ ret' = UnsupportedLanguage(localCall.language)
    /\ UNCHANGED <<batchVars, call, localCall, file_path, input_file_path, fs,
                   created, nextTmp, elapsed, result, unlinkFailed,
                   completed, written, registry, compile_result, container,
                   stdin, total_time_ms, max_memory_mb>>

\* line 84, and lines 144-150 when it raises
LocalCreateFile ==
    /\ pc = "local_create"
    /\ \E io \in IoOutcomes :
          LET c == CreateSolutionFile(localCall.language, io, "run_code_locally")
          IN  /\ file_path' = c.path
              /\ fs' = c.fs
              /\ created' = c.created
              /\ written' = WrittenBy(c.created)
              /\ nextTmp' = c.nextTmp
              /\ unlinkFailed' = (unlinkFailed \/ c.unlinkFailed)
              /\ IF c.raised
                 THEN /\ ret' = ErrorResult(c.text)
                      /\ pc' = "local_finally"
                 ELSE /\ ret' = ret
                      /\ pc' = "local_run"
    /\ UNCHANGED <<batchVars, call, localCall, input_file_path, elapsed, result,
                   completed, registry, compile_result, container, stdin,
                   total_time_ms, max_memory_mb>>

\* lines 86-116: the compile step when the profile has one, then the child
\* process is spawned; spawn = FALSE is subprocess.run raising OSError, and
\* compile_timed_out is the compile step raising TimeoutExpired, which the
\* handler of lines 144-150 turns into an outcome
LocalStart ==
    /\ pc = "local_run"
    /\ \E spawn, compile_timed_out \in BOOLEAN, compile_rc \in {0, 1},
          compile_stderr \in Stderrs :
          LET config == registry[localCall.language]
          IN  IF config.compile_cmd # None /\ compile_timed_out
              THEN /\ compile_result' = compile_result
                   /\ ret' = ErrorResult(CompileTimeoutText)
                   /\ pc' = "local_finally"
              ELSE IF config.compile_cmd # None /\ compile_rc # 0
              THEN /\ compile_result' = CompletedProcess(compile_rc, <<>>,
                                                         compile_stderr)
                   /\ ret' = CompileErrorResult(compile_stderr)
                   /\ pc' = "local_finally"
              ELSE /\ compile_result' =
                        IF config.compile_cmd # None
                        THEN CompletedProcess(0, <<>>, compile_stderr)
                        ELSE compile_result
                   /\ IF ~spawn
                      THEN /\ ret' = ErrorResult(SpawnErrorText)
                           /\ pc' = "local_finally"
                      ELSE /\ ret' = ret
                           /\ pc' = "local_running"
    /\ stdin' = IF pc' = "local_running" THEN LocalStdin(localCall.input)
                ELSE stdin
    /\ elapsed' = 0
    /\ UNCHANGED <<batchVars, call, localCall, file_path, input_file_path, fs,
                   created, nextTmp, result, unlinkFailed, completed, written,
                   registry, container, total_time_ms, max_memory_mb>>

\* time passes while subprocess.run waits
LocalTick ==
    /\ pc = "local_running"
    /\ LocalWaits(localCall.timeout_seconds, elapsed)
    /\ elapsed' = NextClock(localCall.timeout_seconds, elapsed)
    /\ UNCHANGED <<batchVars, pc, call, localCall, file_path, input_file_path,
                   fs, created, nextTmp, ret, result, unlinkFailed,
                   completed, written, registry, compile_result, container,
                   stdin, total_time_ms, max_memory_mb>>

\* the child exits before the timeout
LocalFinish ==
    /\ pc = "local_running"
    /\ LocalWaits(localCall.timeout_seconds, elapsed)
    /\ \E rc \in {0, 1}, stdout \in Stdouts, stderr \in Stderrs :
          /\ completed' = CompletedProcess(rc, stdout, stderr)
          /\ ret' = LocalExitResult(rc, stdout, stderr, elapsed)
    /\ pc' = "local_finally"
    /\ UNCHANGED <<batchVars, call, localCall, file_path, input_file_path, fs,
                   created, nextTmp, elapsed, result, unlinkFailed,
                   written, registry, compile_result, container, stdin,
                   total_time_ms, max_memory_mb>>

\* subprocess.TimeoutExpired: the child is killed
LocalTimeout ==
    /\ pc = "local_running"
    /\ ~LocalWaits(localCall.timeout_seconds, elapsed)
    /\ ret' = LocalTimeoutResult(localCall.timeout_seconds)
    /\ pc' = "local_finally"
    /\ UNCHANGED <<batchVars, call, localCall, file_path, input_file_path, fs,
                   created, nextTmp, elapsed, result, unlinkFailed,
                   completed, written, registry, compile_result, container,
                   stdin, total_time_ms, max_memory_mb>>

\* lines 152-154: an os.unlink that raises replaces the return value
LocalFinally ==
    /\ pc = "local_finally"
    /\ \E u \in UnlinkChoices(file_path) :
          IF u
          THEN /\ fs' = fs
               /\ unlinkFailed' = TRUE
               /\ pc' = "raised"
          ELSE /\ fs' = Unlink(fs, file_path)
               /\ unlinkFailed' = unlinkFailed
               /\ pc' = "local_return"
    /\ UNCHANGED <<batchVars, call, localCall, file_path, input_file_path,
                   created, nextTmp, elapsed, ret, result, completed,
                   written, registry, compile_result, container, stdin,
                   total_time_ms, max_memory_mb>>

(***************************************************************************)
(* Containerized Executor: run_code_docker                                 *)
(***************************************************************************)

\* lines 236-261: containers.run returned (rc = 0) or raised ContainerError
\* after e seconds; the logs hold stdout and stderr
DockerExitResult(rc, stdout, stderr, e, memory_limit_mb) ==
    IF rc # 0
    THEN ErrorResult(<<"Runtime error: ">>
                     \o (IF stderr # <<>> THEN stderr ELSE ContainerErrorText))
    ELSE ExecutionResult(Strip(stdout \o stderr), ElapsedMs(e),
                         memory_limit_mb \div 2, None, FALSE)

\* containers.run(detach=False) is given no timeout: it waits for the
\* container however long it runs.  The model stops the clock one
\* observation past timeout + Grace.
DockerWaits(T, e) == \E c \in ClockPoints(T) : c > e

\* variant: the fallback call leaves the limits at the defaults of
\* run_code_locally's signature
FallbackCallDefaults(c) ==
    [c EXCEPT !.timeout_seconds = 10, !.memory_limit_mb = 256]

\* lines 167-174, the probe raising: the request goes to run_code_locally
FallbackCall(c) == c

DockerProbeFail ==
    /\ pc = "docker_probe"
    /\ localCall' = FallbackCall(call)
    /\ pc' = "local_lookup"
    /\ UNCHANGED <<batchVars, call, file_path, input_file_path, fs, created,
                   nextTmp, elapsed, ret, result, unlinkFailed,
                   completed, written, registry, compile_result, container,
                   stdin, total_time_ms, max_memory_mb>>

\* lines 167-185, the probe succeeding
DockerProbeOk ==
    /\ pc = "docker_probe"
    /\ IF Supported(call.language)
       THEN /\ pc' = "docker_create"
            /\ result' = result
       ELSE /\ pc' = "compare"
            /\ result' = UnsupportedLanguage(call.language)
    /\ UNCHANGED <<batchVars, call, localCall, file_path, input_file_path, fs,
                   created, nextTmp, elapsed, ret, unlinkFailed,
                   completed, written, registry, compile_result, container,
                   stdin, total_time_ms, max_memory_mb>>

\* line 191, and lines 255-261 when it raises
DockerCreateFile ==
    /\ pc = "docker_create"
    /\ \E io \in IoOutcomes :
          LET c == CreateSolutionFile(call.language, io, "run_code_docker")
          IN  /\ file_path' = c.path
              /\ fs' = c.fs
              /\ created' = c.created
              /\ written' = WrittenBy(c.created)
              /\ nextTmp' = c.nextTmp
              /\ unlinkFailed' = (unlinkFailed \/ c.unlinkFailed)
              /\ IF c.raised
                 THEN /\ result' = ErrorResult(c.text)
                      /\ pc' = "docker_finally"
                 ELSE /\ result' = result
                      /\ pc' = "docker_input"
    /\ UNCHANGED <<batchVars, call, localCall, input_file_path, elapsed, ret,
                   completed, registry, compile_result, container, stdin,
                   total_time_ms, max_memory_mb>>

\* lines 196-198: input.txt next to the solution file; open() or write()
\* may raise, the latter with the file already there
DockerWriteInput ==
    /\ pc = "docker_input"
    /\ input_file_path' = InputFile
    /\ \E io \in {"ok", "open_raises", "write_raises"} :
          /\ IF io = "open_raises"
             THEN /\ fs' = fs
                  /\ created' = created
                  /\ written' = written
             ELSE /\ fs' = fs \cup {InputFile}
                  /\ created' = created \cup {<<InputFile, "run_code_docker">>}
                  /\ written' = WrittenBy({<<InputFile, "run_code_docker">>})
          /\ IF io = "ok"
             THEN /\ result' = result
                  /\ pc' = "docker_run"
             ELSE /\ result' = ErrorResult(OSErrorText)
                  /\ pc' = "docker_finally"
    /\ UNCHANGED <<batchVars, call, localCall, file_path, nextTmp, elapsed, ret,
                   unlinkFailed, completed, registry, compile_result,
                   container, stdin, total_time_ms, max_memory_mb>>

\* variant: the container is not asked to be removed
ContainerRunKept(config, memory_limit_mb) ==
    [image |-> config.image, network_disabled |-> TRUE, volume_mode |-> "ro",
     mem_limit |-> memory_limit_mb, remove |-> FALSE, status |-> "running"]

\* the keyword arguments of client.containers.run, lines 224-234
ContainerRun(config, memory_limit_mb) ==
    [image |-> config.image, network_disabled |-> TRUE, volume_mode |-> "ro",
     mem_limit |-> memory_limit_mb, remove |-> TRUE, status |-> "running"]

\* the container's process has exited: remove=True has it removed before
\* containers.run returns or raises ContainerError
ContainerExit(c) ==
    IF c.remove THEN NoContainer ELSE [c EXCEPT !.status = "exited"]

\* lines 221-234: the container is started; started = FALSE is the backend
\* raising (image missing, API error), caught at lines 255-261
DockerStart ==
    /\ pc = "docker_run"
    /\ \E started \in BOOLEAN :
          IF started
          THEN /\ container' = ContainerRun(registry[call.language],
                                            call.memory_limit_mb)
               /\ stdin' = DockerStdin(call.input)
               /\ result' = result
               /\ pc' = "docker_running"
          ELSE /\ container' = container
               /\ stdin' = stdin
               /\ result' = ErrorResult(DockerErrorText)
               /\ pc' = "docker_finally"
    /\ elapsed' = 0
    /\ UNCHANGED <<batchVars, call, localCall, file_path, input_file_path, fs,
                   created, nextTmp, ret, unlinkFailed, completed,
                   written, registry, compile_result, total_time_ms,
                   max_memory_mb>>

\* time passes while containers.run waits
DockerTick ==
    /\ pc = "docker_running"
    /\ DockerWaits(call.timeout_seconds, elapsed)
    /\ elapsed' = NextClock(call.timeout_seconds, elapsed)
    /\ UNCHANGED <<batchVars, pc, call, localCall, file_path, input_file_path,
                   fs, created, nextTmp, ret, result, unlinkFailed,
                   completed, written, registry, compile_result, container,
                   stdin, total_time_ms, max_memory_mb>>

\* the container exits
DockerFinish ==
    /\ pc = "docker_running"
    /\ \E rc \in {0, 1}, stdout \in Stdouts, stderr \in Stderrs :
          LET p == IF stdin = NotStarted
                   THEN ShellFailure
                   ELSE CompletedProcess(rc, stdout, stderr)
          IN  /\ completed' = p
              /\ result' = DockerExitResult(p.returncode, p.stdout, p.stderr,
                                            elapsed, call.memory_limit_mb)
    /\ container' = ContainerExit(container)
    /\ pc' = "docker_finally"
    /\ UNCHANGED <<batchVars, call, localCall, file_path, input_file_path, fs,
                   created, nextTmp, elapsed, ret, unlinkFailed,
                   written, registry, compile_result, stdin, total_time_ms,
                   max_memory_mb>>

\* variant: the finally block forgets input.txt
DockerInputCleanupForgotten == NoPath

\* the second path the finally block of run_code_docker deletes
DockerInputCleanup == input_file_path

\* lines 263-267: the second unlink is not reached when the first raises
DockerFinally ==
    /\ pc = "docker_finally"
    /\ \E u1 \in UnlinkChoices(file_path), u2 \in UnlinkChoices(DockerInputCleanup) :
          IF u1
          THEN /\ fs' = fs
               /\ unlinkFailed' = TRUE
               /\ pc' = "raised"
          ELSE IF u2
          THEN /\ fs' = Unlink(fs, file_path)
               /\ unlinkFailed' = TRUE
               /\ pc' = "raised"
          ELSE /\ fs' = Unlink(Unlink(fs, file_path), DockerInputCleanup)
               /\ unlinkFailed' = unlinkFailed
               /\ pc' = "compare"
    /\ UNCHANGED <<batchVars, call, localCall, file_path, input_file_path,
                   created, nextTmp, elapsed, ret, result, completed,
                   written, registry, compile_result, container, stdin,
                   total_time_ms, max_memory_mb>>

\* line 174: run_code_docker returns what run_code_locally returned
FallbackResult(r) == r

FallbackReturn ==
    /\ pc = "local_return"
    /\ result' = FallbackResult(ret)
    /\ pc' = "compare"
    /\ UNCHANGED <<batchVars, call, localCall, file_path, input_file_path, fs,
                   created, nextTmp, elapsed, ret, unlinkFailed,
                   completed, written, registry, compile_result, container,
                   stdin, total_time_ms, max_memory_mb>>

(***************************************************************************)
(* execute_testcase, and the loop body of the batch runners                *)
(***************************************************************************)

\* sandbox.py lines 298-306
MakeTestcaseResult(r, testcase_index, actual, expected) ==
    [testcase_index |-> testcase_index,
     passed |-> ComparePassed(actual, expected),
     actual_output |-> actual,
     expected_output |-> expected,
     execution_time_ms |-> r.execution_time_ms,
     memory_used_mb |-> r.memory_used_mb,
     error |-> r.error]

\* sandbox.py lines 284-306
TestcaseResult(r, testcase, testcase_index) ==
    MakeTestcaseResult(r, testcase_index, Normalize(r.output),
                       Normalize(testcase.expected_output))

\* variant: the newest result is put first
ListPrepend(rs, r) == <<r>> \o rs

\* results.append(result)
ListAppend(rs, r) == Append(rs, r)

\* if result.error and not runtime_error: runtime_error = result.error
CaptureError(current, error) ==
    IF Truthy(error) /\ ~Truthy(current) THEN error ELSE current

\* total_time_ms += result.execution_time_ms
AccumulateTime(total, r) == total + r.execution_time_ms

\* variant: the memory figure kept is the one of the latest testcase
AccumulateMemoryLast(peak, r) == r.memory_used_mb

\* max_memory_mb = max(max_memory_mb, result.memory_used_mb)
AccumulateMemory(peak, r) == Max(peak, r.memory_used_mb)

\* execute_testcase returns; results.append(result) and the first-error
\* capture (execution.py lines 52-56, submission.py lines 168-173)
AppendResult ==
    /\ pc = "compare"
    /\ results' = ListAppend(results, TestcaseResult(result, request.testcases[i + 1], i))
    /\ runtime_error' = CaptureError(runtime_error, result.error)
    /\ total_time_ms' = IF runner = "submit_solution"
                         THEN AccumulateTime(total_time_ms, result)
                         ELSE total_time_ms
    /\ max_memory_mb' = IF runner = "submit_solution"
                         THEN AccumulateMemory(max_memory_mb, result)
                         ELSE max_memory_mb
    /\ i' = i + 1
    /\ pc' = "loop"
    /\ UNCHANGED <<runner, request, timeout, memory, response, call, localCall,
                   file_path, input_file_path, fs, created, nextTmp, elapsed,
                   ret, result, unlinkFailed, runs, completed, written,
                   registry, compile_result, container, stdin>>

Next ==
    \/ BeginBatch
    \/ CallExecuteTestcase
    \/ FinishBatch
    \/ DockerProbeFail
    \/ DockerProbeOk
    \/ DockerCreateFile
    \/ DockerWriteInput
    \/ DockerStart
    \/ DockerTick
    \/ DockerFinish
    \/ DockerFinally
    \/ FallbackReturn
    \/ LocalLookup
    \/ LocalCreateFile
    \/ LocalStart
    \/ LocalTick
    \/ LocalFinish
    \/ LocalTimeout
    \/ LocalFinally
    \/ AppendResult

Spec == Init /\ [][Next]_vars

(***************************************************************************)
(* The comparator on its own: execute_testcase is handed an executor       *)
(* result and a testcase drawn from CmpTexts, with whitespace around them  *)
(***************************************************************************)

\* a JSON object text with the pairs in the order given: {"a": 1, "b": 2}
RECURSIVE PairsText(_)
PairsText(pairs) ==
    IF pairs = <<>> THEN <<>>
    ELSE <<"\"", pairs[1][1], "\"", ":", " ", pairs[1][2]>>
         \o (IF Len(pairs) > 1 THEN <<",", " ">> ELSE <<>>)
         \o PairsText(Tail(pairs))

ObjText(pairs) == <<"{">> \o PairsText(pairs) \o <<"}">>

\* mappings as sets of (key, value) pairs with distinct keys
Mappings == {{<<"a", "1">>, <<"b", "2">>}, {<<"a", "1">>, <<"b", "3">>}}

\* the orders in which the pairs of mapping m can be written
Orderings(m) ==
    {o \in [1..Cardinality(m) -> m] :
        \A x, y \in 1..Cardinality(m) : x # y => o[x] # o[y]}

FreeTexts ==
    {<<"H", "e", "l", "l", "o">>,
     <<"h", "e", "l", "l", "o">>,
     <<"3">>,
     <<"4">>,
     <<"1">>,
     <<"1", ".", "0">>,
     <<"t", "r", "u", "e">>,
     <<"N", "a", "N">>,
     <<"[", "1", ",", " ", "2", "]">>,
     <<"[", "2", ",", " ", "1", "]">>,
     <<"{", "\"", "a", "\"", ":">>,
     <<>>}

CmpTexts == FreeTexts \cup {ObjText(o) : o \in UNION {Orderings(m) : m \in Mappings}}

PadKinds == {"none", "lead", "trail", "both"}

\* text s with whitespace added around it
Pad(kind, s) ==
    CASE kind = "none" -> s
      [] kind = "lead" -> <<" ">> \o s
      [] kind = "trail" -> s \o <<"\n">>
      [] kind = "both" -> <<"\t", " ">> \o s \o <<" ", "\n">>

PaddedTexts == {Pad(k, t) : k \in PadKinds, t \in CmpTexts}

InitCmp ==
    /\ runner = "execute_code"
    /\ \E x \in PaddedTexts :
          request = [language |-> "python",
                     testcases |-> <<[input |-> <<"1">>, expected_output |-> x]>>,
                     timeout_seconds |-> code_timeout_seconds,
                     memory_limit_mb |-> code_memory_limit_mb]
    /\ pc = "compare"
    /\ timeout = code_timeout_seconds
    /\ memory = code_memory_limit_mb
    /\ i = 0
    /\ results = <<>>
    /\ runtime_error = None
    /\ response = NoResponse
    /\ call = [language |-> "python", input |-> <<"1">>,
               timeout_seconds |-> code_timeout_seconds,
               memory_limit_mb |-> code_memory_limit_mb]
    /\ localCall = NoCall
    /\ file_path = NoPath
    /\ input_file_path = NoPath
    /\ fs = {}
    /\ created = {}
    /\ nextTmp = 1
    /\ elapsed = 0
    /\ ret = NoResult
    /\ \E o \in PaddedTexts : result = ExecutionResult(o, 0, 0, None, FALSE)
    /\ unlinkFailed = FALSE
    /\ runs = [j \in 1..MaxCases |-> IF j = 1 THEN 1 ELSE 0]
    /\ completed = NoProcess
    /\ written = {}
    /\ registry = LANGUAGE_CONFIG
    /\ compile_result = NoProcess
    /\ container = NoContainer
    /\ stdin = NotStarted
    /\ total_time_ms = 0
    /\ max_memory_mb = 0

NextCmp == AppendResult \/ FinishBatch

SpecCmp == InitCmp /\ [][NextCmp]_vars

(***************************************************************************)
(* Properties                                                              *)
(***************************************************************************)

\* the testcase results so far are those of testcases 1..Len(rs), in order,
\* each with the expected output want(j) of its testcase
InOrder(rs, want(_)) ==
    \A j \in 1..Len(rs) :
        /\ rs[j].testcase_index = j - 1
        /\ j <= NumCases
        /\ rs[j].expected_output = want(j)

\* C1, as stated: a batch over n testcases returns exactly n results, the
\* result at position i has testcase_index i and carries the expected output
\* of the i-th testcase, whatever the outcomes.
C1_ResultsCarryExpectedOutput ==
    LET want(j) == request.testcases[j].expected_output
    IN  /\ InOrder(results, want)
        /\ response.produced =>
              /\ Len(response.results) = NumCases
              /\ InOrder(response.results, want)

\* C1, amended: a batch over n testcases returns exactly n results, the
\* result at position i has testcase_index i and carries the expected output
\* of the i-th testcase with its surrounding whitespace removed, whatever the
\* outcomes.
C1_ResultsCarryTrimmedExpectedOutput ==
    LET want(j) == Strip(request.testcases[j].expected_output)
    IN  /\ InOrder(results, want)
        /\ response.produced =>
              /\ Len(response.results) = NumCases
              /\ InOrder(response.results, want)

\* a finished batch of two or more testcases, the first one with an error, a
\* later one passed, and an expected output that had whitespace to trim
C1_Witness ==
    /\ response.produced
    /\ Len(response.results) >= 2
    /\ response.results[1].error # None
    /\ response.results[2].passed
    /\ request.testcases[1].expected_output # response.results[1].expected_output

\* the executor has an outcome in hand for a run of the user program that
\* went on past (docker) or up to (local) the timeout it was given
DockerRanOver == pc = "docker_finally" /\ elapsed > call.timeout_seconds
LocalRanOver == pc = "local_finally" /\ elapsed >= localCall.timeout_seconds

TimeLimitOutcome(r, T) ==
    /\ r.timed_out
    /\ r.execution_time_ms = Millis(T * 1000)
    /\ r.error = <<"Time limit exceeded">>

\* C2: on either path, a run of user code that exceeds the configured timeout
\* produces an outcome with timed_out true, execution_time_ms equal to
\* timeout_seconds * 1000 and the error 'Time limit exceeded'.
C2_TimeoutAlwaysReported ==
    /\ DockerRanOver => TimeLimitOutcome(result, call.timeout_seconds)
    /\ LocalRanOver => TimeLimitOutcome(ret, localCall.timeout_seconds)

\* C3: a child process or container is never still being waited for once the
\* timeout plus the grace period has elapsed: it has been terminated and the
\* attempt is on its way to returning an outcome.
C3_RunawayTerminated ==
    /\ pc = "docker_running" => elapsed <= call.timeout_seconds + Grace
    /\ pc = "local_running" => elapsed <= localCall.timeout_seconds + Grace

\* C4: a testcase result with an error does not end the batch.  Every
\* testcase is run at most once, every result belongs to a testcase that was
\* run once, after any result (with or without an error) the runner goes on
\* to the next testcase while one is left, and the batch finishes only with
\* a result for every testcase.
C4_ErrorsDoNotAbort ==
    /\ \A j \in 1..MaxCases : runs[j] <= 1
    /\ \A j \in 1..Len(results) : runs[j] = 1
    /\ (pc = "loop" /\ Len(results) < NumCases) => ENABLED CallExecuteTestcase
    /\ pc = "done" => Len(results) = NumCases

\* a finished batch whose first testcase timed out and whose second testcase
\* was run and has its own result
C4_Witness ==
    /\ pc = "done"
    /\ Len(results) >= 2
    /\ results[1].error = <<"Time limit exceeded">>
    /\ runs[2] = 1
    /\ results[2].testcase_index = 1

\* C5: when the probe fails, run_code_locally is called with the very
\* arguments run_code_docker was called with, what it returns is returned
\* unchanged, and run_code_docker itself has created no file: no solution
\* file and no input.txt.
C5_FallbackRunsSameRequest ==
    localCall # NoCall =>
        /\ localCall = call
        /\ \A c \in created : c[2] # "run_code_docker"
        /\ input_file_path = NoPath
        /\ InputFile \notin fs
        /\ pc = "compare" => result = ret

\* the fallback has returned an outcome of a program that ran and wrote
\* output; the file the local attempt made is gone again
C5_Witness ==
    /\ pc = "compare"
    /\ localCall # NoCall
    /\ result.error = None
    /\ result.output # <<>>
    /\ created # {}
    /\ fs = {}

\* C6: no TestcaseResult carries an error that stems from the container
\* backend failing, also when it fails after the probe has succeeded.
C6_BackendFailureNeverReported ==
    \A j \in 1..Len(results) : results[j].error # DockerErrorText

\* C7: a request whose language is not in LANGUAGE_CONFIG is rejected before
\* any testcase runs: no testcase is run, no result and no summary is
\* produced.
C7_UnsupportedRejectedOutright ==
    ~Supported(request.language) =>
        /\ \A j \in 1..MaxCases : runs[j] = 0
        /\ results = <<>>
        /\ ~response.produced

\* the attempt has returned to execute_testcase or to run_code_docker
AttemptReturned == pc \in {"local_return", "compare", "loop", "done"}

\* C8: when an attempt returns, no file it created exists any more, on every
\* exit path on which the deletion itself does not fail.
C8_ArtifactsRemoved ==
    (AttemptReturned /\ ~unlinkFailed) => \A c \in created : c[1] \notin fs

\* a containerized attempt that created both of its files and ended with an
\* error has returned
C8_Witness ==
    /\ pc = "compare"
    /\ ~unlinkFailed
    /\ Cardinality(created) = 2
    /\ result.error # None
    /\ fs = {}

\* a testcase result has just been produced from result and testcase i
Compared == pc \in {"loop", "done"} /\ i >= 1

Verdict(o, x) ==
    TestcaseResult(ExecutionResult(o, 0, 0, None, FALSE),
                   [input |-> <<>>, expected_output |-> x], 0).passed

\* C10: whitespace added to or removed from either end of the actual or of
\* the expected output never changes the verdict, and two serialized
\* mappings with the same pairs in a different key order pass.
C10_FormattingInvariant ==
    Compared =>
        LET a == Strip(result.output)
            e == Strip(request.testcases[i].expected_output)
        IN  /\ \A k1, k2 \in PadKinds :
                  Verdict(Pad(k1, a), Pad(k2, e)) = results[i].passed
            /\ \A m \in Mappings : \A o1, o2 \in Orderings(m) :
                  (a = ObjText(o1) /\ e = ObjText(o2)) => results[i].passed

\* {"a": 1, "b": 2} with leading whitespace was compared with
\* {"b": 2, "a": 1} with trailing whitespace, and passed
C10_Witness ==
    /\ Compared
    /\ result.output = Pad("lead", ObjText(<<<<"a", "1">>, <<"b", "2">>>>))
    /\ request.testcases[i].expected_output
          = Pad("trail", ObjText(<<<<"b", "2">>, <<"a", "1">>>>))
    /\ results[i].passed

\* the error of the lowest-index result of rs whose error is not None, or
\* None when no result has one
RECURSIVE FirstNonNullError(_)
FirstNonNullError(rs) ==
    IF rs = <<>> THEN None
    ELSE IF rs[1].error # None THEN rs[1].error
    ELSE FirstNonNullError(Tail(rs))

\* C11: after every testcase of a batch, and in the response, the
\* submission-level runtime_error is the error of the lowest-index result
\* whose error is non-null (None when there is none); the errors of later
\* testcases never overwrite it.
C11_FirstErrorKept ==
    /\ pc \in {"loop", "done"} => runtime_error = FirstNonNullError(results)
    /\ response.produced =>
          response.runtime_error = FirstNonNullError(response.results)

(***************************************************************************)
(* The summary on its own: execute_code has run every testcase and is      *)
(* about to compute the summary of results with measured durations         *)
(***************************************************************************)

\* durations perf_counter can measure, in thousandths of a millisecond
Durations == {0, Millis(2000) + 3, Millis(2000) + 8, Millis(4000)}

\* memory figures of a result: 0 on the local path, half the limit in Docker
MemoryFigures == {0, code_memory_limit_mb \div 2}

\* the results execute_testcase can return for testcase j (1-based)
ResultsFor(j) ==
    {TestcaseResult(ExecutionResult(Strip(o), d, m, e, FALSE), TestcaseAt(j), j - 1) :
        o \in Stdouts, d \in Durations, m \in MemoryFigures,
        e \in {None, <<"E">>}}

\* lists of results for the testcases 1..n
ResultLists(n) == {rs \in [1..n -> UNION {ResultsFor(j) : j \in 1..n}] :
                      \A j \in 1..n : rs[j] \in ResultsFor(j)}

\* runtime_error after the loop has gone through rs
RECURSIVE CapturedError(_)
CapturedError(rs) ==
    IF rs = <<>> THEN None
    ELSE CaptureError(CapturedError(SubSeq(rs, 1, Len(rs) - 1)), rs[Len(rs)].error)

InitSum ==
    /\ runner = "execute_code"
    /\ \E n \in 1..MaxCases :
          /\ request = [language |-> "python",
                        testcases |-> [j \in 1..n |-> TestcaseAt(j)],
                        timeout_seconds |-> code_timeout_seconds,
                        memory_limit_mb |-> code_memory_limit_mb]
          /\ i = n
          /\ results \in ResultLists(n)
          /\ runs = [j \in 1..MaxCases |-> IF j <= n THEN 1 ELSE 0]
    /\ runtime_error = CapturedError(results)
    /\ pc = "loop"
    /\ timeout = code_timeout_seconds
    /\ memory = code_memory_limit_mb
    /\ response = NoResponse
    /\ call = NoCall
    /\ localCall = NoCall
    /\ file_path = NoPath
    /\ input_file_path = NoPath
    /\ fs = {}
    /\ created = {}
    /\ nextTmp = 1
    /\ elapsed = 0
    /\ ret = NoResult
    /\ result = NoResult
    /\ unlinkFailed = FALSE
    /\ completed = NoProcess
    /\ written = {}
    /\ registry = LANGUAGE_CONFIG
    /\ compile_result = NoProcess
    /\ container = NoContainer
    /\ stdin = NotStarted
    /\ total_time_ms = 0
    /\ max_memory_mb = 0

NextSum == FinishBatch

SpecSum == InitSum /\ [][NextSum]_vars

\* the number of results of rs that passed
RECURSIVE CountPassed(_)
CountPassed(rs) ==
    IF rs = <<>> THEN 0
    ELSE (IF rs[1].passed THEN 1 ELSE 0) + CountPassed(Tail(rs))

\* m is the largest memory figure of rs, 0 when rs is empty
IsMaxMemory(m, rs) ==
    IF rs = <<>> THEN m = 0
    ELSE /\ \A j \in 1..Len(rs) : rs[j].memory_used_mb <= m
         /\ \E j \in 1..Len(rs) : rs[j].memory_used_mb = m

\* the counts and the memory figure of the summary of execute_code
SummaryCounts(s, rs) ==
    /\ s.total = Len(rs)
    /\ s.passed = CountPassed(rs)
    /\ s.failed = s.total - s.passed
    /\ IsMaxMemory(s.max_memory_mb, rs)

\* C12, as stated: the summary execute_code returns has total = number of
\* results, passed = number of passed results, failed = total - passed, an
\* average duration equal to the sum of the durations divided by the number
\* of cases, and the maximum memory figure.
C12_SummaryDerived ==
    (response.produced /\ runner = "execute_code") =>
        /\ SummaryCounts(response.summary, response.results)
        /\ response.summary.avg_execution_time_ms * Len(response.results)
              = SumTime(response.results)

\* C12, amended: as above, with the average duration being the sum of the
\* durations divided by the number of cases rounded to two decimal places:
\* a multiple of a hundredth of a millisecond at most half a hundredth away
\* from the quotient.
C12_SummaryDerivedRounded ==
    (response.produced /\ runner = "execute_code") =>
        /\ SummaryCounts(response.summary, response.results)
        /\ response.summary.avg_execution_time_ms % 10 = 0
        /\ LET n == Len(response.results)
               d == response.summary.avg_execution_time_ms * n
                      - SumTime(response.results)
           IN  2 * d <= 10 * n /\ 2 * d >= -(10 * n)

\* a summary over two results, one passed and one failed, whose mean
\* duration has more than two decimals and whose memory figures differ
C12_Witness ==
    /\ response.produced
    /\ runner = "execute_code"
    /\ Len(response.results) = 2
    /\ response.summary.passed = 1
    /\ response.summary.failed = 1
    /\ SumTime(response.results) % 20 # 0
    /\ response.results[1].memory_used_mb > response.results[2].memory_used_mb

\* the limits of call c are within the operator's maxima
WithinMaxima(c) ==
    /\ c.timeout_seconds <= code_timeout_seconds
    /\ c.memory_limit_mb <= code_memory_limit_mb

\* C13: the timeout and the memory ceiling handed to run_code_docker, and by
\* it to run_code_locally, never exceed settings.code_timeout_seconds and
\* settings.code_memory_limit_mb, whatever the request asked for; a value
\* requested of execute_code that is not above the maximum is handed on as
\* requested.
C13_LimitsCapped ==
    /\ call # NoCall => WithinMaxima(call)
    /\ localCall # NoCall => WithinMaxima(localCall)
    /\ (call # NoCall /\ runner = "execute_code") =>
          /\ request.timeout_seconds <= code_timeout_seconds
                => call.timeout_seconds = request.timeout_seconds
          /\ request.memory_limit_mb <= code_memory_limit_mb
                => call.memory_limit_mb = request.memory_limit_mb

\* execute_code was asked for 30 seconds and 512 MB, and the local child
\* process of the fallback runs under the maxima
C13_Witness ==
    /\ runner = "execute_code"
    /\ request.timeout_seconds > code_timeout_seconds
    /\ request.memory_limit_mb > code_memory_limit_mb
    /\ pc = "local_running"
    /\ localCall.timeout_seconds = code_timeout_seconds
    /\ localCall.memory_limit_mb = code_memory_limit_mb

\* the run behind result r of testcase j ended without an error and wrote
\* the expected output of the testcase
WroteExpected(r, j) ==
    /\ r.error = None
    /\ r.actual_output = Strip(request.testcases[j].expected_output)

\* C14: for a supported language, when the run of every testcase ended
\* without an error and wrote exactly the expected output of its testcase,
\* the batch reports passed == total and a null runtime_error, whichever
\* executor produced the outcomes.
C14_ExactOutputPasses ==
    (/\ response.produced
     /\ Supported(request.language)
     /\ \A j \in 1..Len(response.results) : WroteExpected(response.results[j], j))
    => /\ response.summary.passed = response.summary.total
       /\ response.runtime_error = None

\* C15: every testcase result with passed false has an actual_output that
\* differs textually from its expected_output, or a non-null error.
C15_FailureExplained ==
    \A j \in 1..Len(results) :
        ~results[j].passed =>
            \/ results[j].actual_output # results[j].expected_output
            \/ results[j].error # None

\* the child process or the container of the running attempt has exited
\* with a non-zero code and the executor has its outcome in hand
ExitedNonZero ==
    pc \in {"local_finally", "docker_finally"} /\ completed.returncode > 0

\* the outcome the running executor is about to return
Outcome == IF pc = "local_finally" THEN ret ELSE result

\* C16: for the expected failure modes the executors never raise and return
\* an outcome whose error is set: nothing is raised unless a deletion in a
\* finally block failed, and the outcome of a run that ended with a non-zero
\* exit code, or that went past the timeout, carries an error.
C16_ExpectedFailuresReturned ==
    /\ pc = "raised" => unlinkFailed
    /\ ExitedNonZero => Outcome.error # None
    /\ LocalRanOver => ret.error # None
    /\ DockerRanOver => result.error # None

\* C17: a deletion that fails while an attempt cleans up never replaces the
\* outcome of the run: the executor still returns and no exception reaches
\* the batch runner.
C17_CleanupFailureHarmless ==
    unlinkFailed => pc # "raised"

\* C18: no file is shared between two execution attempts: every file an
\* attempt writes has a name that no other attempt writes.
C18_ArtifactsNotShared ==
    \A w1, w2 \in written : w1[1] = w2[1] => w1[2] = w2[2]

\* an isolation attempt is under way: execute_testcase has been called and
\* has not returned
InAttempt == pc \notin {"start", "loop", "done", "raised"}

\* the solution files on disk
ArtifactsOnDisk == {f \in fs : f[1] = "tmp"}

\* C19: within one batch the attempts are strictly sequential.  While the
\* attempt for testcase i + 1 is under way every earlier testcase has its
\* result and no later testcase has been started; between attempts none is
\* started ahead; and, as long as no deletion has failed, an attempt starts
\* with no file of an earlier attempt on disk and at most one solution file
\* exists at any time.
C19_StrictlySequential ==
    /\ InAttempt => (Len(results) = i /\ i < NumCases /\ runs[i + 1] = 1)
    /\ \A j \in 1..MaxCases : j > i + 1 => runs[j] = 0
    /\ \A j \in 1..MaxCases : (~InAttempt /\ pc # "raised" /\ j > i) => runs[j] = 0
    /\ (pc = "docker_probe" /\ ~unlinkFailed) => fs = {}
    /\ ~unlinkFailed => Cardinality(ArtifactsOnDisk) <= 1

\* the container of the second testcase is running with its own solution
\* file on disk, the one of the first testcase being gone
C19_Witness ==
    /\ pc = "docker_running"
    /\ i = 1
    /\ Len(results) = 1
    /\ ~unlinkFailed
    /\ fs = {TmpFile(2), InputFile}

\* text t occurs in text s
Contains(s, t) ==
    \E k \in 0..(Len(s) - Len(t)) : SubSeq(s, k + 1, k + Len(t)) = t

\* C20: whenever the user program exits with a non-zero code the outcome
\* carries a non-empty error message, on both paths and also when stderr is
\* empty or holds only whitespace; when stderr has content the message
\* carries that text.
C20_NonZeroExitHasMessage ==
    ExitedNonZero =>
        /\ Truthy(Outcome.error)
        /\ Strip(completed.stderr) # <<>>
              => Contains(Outcome.error, Strip(completed.stderr))

(***************************************************************************)
(* The compile step: no profile of LANGUAGE_CONFIG has a compile_cmd, so   *)
(* lines 86-102 of run_code_locally are exercised with a registry that     *)
(* holds a compiled profile next to the python one                         *)
(***************************************************************************)

\* a profile whose compile_cmd is set
CompiledProfile ==
    [extension |-> ".cpp", compile_cmd |-> <<"g++ ", "{file}">>,
     run_cmd |-> <<"./a.out">>, image |-> "gcc:13"]

CompiledRegistry ==
    [l \in {"python", "cpp"} |->
        IF l = "cpp" THEN CompiledProfile ELSE LANGUAGE_CONFIG[l]]

InitCompile == InitBatch(CompiledRegistry, {"cpp"})

SpecCompile == InitCompile /\ [][Next]_vars

\* the compile step of the running local attempt ended with a non-zero code
CompileFailed == compile_result.returncode > 0

\* C21: in run_code_locally, when the profile has a compile command and the
\* compiler exits non-zero, the run command is never started, the outcome's
\* error contains the compiler's stderr text, its duration is 0 and its
\* output is empty, and the solution file is removed when the attempt
\* returns (unless its deletion fails).
C21_CompileFailure ==
    CompileFailed =>
        /\ pc # "local_running"
        /\ completed = NoProcess
        /\ ret.error # None
        /\ Contains(ret.error, compile_result.stderr)
        /\ ret.execution_time_ms = 0
        /\ ret.output = <<>>
        /\ (AttemptReturned /\ ~unlinkFailed) => fs = {}

\* the compiler failed writing "E", and the attempt has returned with its
\* solution file deleted
C21_Witness ==
    /\ CompileFailed
    /\ compile_result.stderr = <<"E">>
    /\ pc = "compare"
    /\ result.error = <<"Compilation error: ", "E">>
    /\ created # {}
    /\ fs = {}

\* the container of the running attempt was started and has exited, and
\* run_code_docker has its outcome in hand
ContainerExited == pc = "docker_finally" /\ completed # NoProcess

\* C22: every outcome the containerized executor produces after a container
\* was started reports memory_used_mb as one half of the memory ceiling it
\* was given, never zero, also for a non-zero exit.
C22_MemoryIsHalfCeiling ==
    ContainerExited =>
        /\ 2 * result.memory_used_mb = call.memory_limit_mb
        /\ result.memory_used_mb # 0

\* C23: every outcome the containerized executor produces after a container
\* was started reports as its duration the wall-clock time the container
\* took, also for a non-zero exit.
C23_DurationIsWallClock ==
    ContainerExited => result.execution_time_ms = ElapsedMs(elapsed)

\* C24: a container exists only while containers.run waits for it; it was
\* started from the image of the profile, with networking disabled, the
\* directory of the solution file mounted read-only and the memory limit set
\* to the ceiling of the call; once the attempt has returned no container is
\* left, whether the run succeeded, exited non-zero or ran past the timeout.
C24_ContainerIsolatedAndRemoved ==
    /\ pc = "docker_running" => container # NoContainer
    /\ container # NoContainer =>
          /\ pc = "docker_running"
          /\ container.image = registry[call.language].image
          /\ container.network_disabled
          /\ container.volume_mode = "ro"
          /\ container.mem_limit = call.memory_limit_mb
    /\ AttemptReturned => container = NoContainer

\* a container that ran past the timeout and exited with a non-zero code is
\* gone when run_code_docker has returned
C24_Witness ==
    /\ pc = "compare"
    /\ localCall = NoCall
    /\ completed.returncode = 1
    /\ elapsed > call.timeout_seconds
    /\ container = NoContainer

\* C25: both executors give the user program the raw input of the testcase
\* on standard input, whatever the input holds: the program is started and
\* reads exactly the input text.
C25_RawInputOnBothPaths ==
    /\ pc = "local_running" => stdin = localCall.input
    /\ pc = "docker_running" => stdin = call.input

\* C26: a testcase result with passed true never carries a non-null error: a
\* run that ended with a timeout, a runtime error, a compile error or an
\* unsupported-language error is never counted as passed.
C26_PassedHasNoError ==
    \A j \in 1..Len(results) : results[j].passed => results[j].error = None

\* C27: the comparator is reflexive and symmetric: an actual output whose
\* trimmed text is identical to the trimmed expected output passes, whether
\* or not the text parses as JSON, and swapping actual and expected output
\* does not change the verdict.
C27_ReflexiveSymmetric ==
    Compared =>
        /\ results[i].actual_output = results[i].expected_output
              => results[i].passed
        /\ Verdict(request.testcases[i].expected_output, result.output)
              = results[i].passed

\* C28: after every testcase of a batch, and in the response, the
\* submission-level runtime_error is non-null if and only if at least one
\* testcase result has a non-null error, the empty string included.
C28_ErrorIffSomeResultError ==
    /\ pc \in {"loop", "done"} =>
          (runtime_error # None <=> \E j \in 1..Len(results) : results[j].error # None)
    /\ response.produced =>
          (response.runtime_error # None
              <=> \E j \in 1..Len(response.results) :
                     response.results[j].error # None)

\* outcome r is the one of a language id that is not in the registry
IsUnsupportedOutcome(r, language) ==
    /\ r.output = <<>>
    /\ r.execution_time_ms = 0
    /\ r.memory_used_mb = 0
    /\ ~r.timed_out
    /\ r.error = <<"Unsupported language: ", language>>

\* C29: for a language id absent from LANGUAGE_CONFIG an attempt has no side
\* effect on either path: no file is created, no child process and no
\* container is started, and the outcome returned has empty output, duration
\* 0, memory 0, timed_out false and the error 'Unsupported language: <id>';
\* create_solution_file, called with such an id, raises with that message
\* and creates no file.
C29_UnsupportedHasNoEffect ==
    ~Supported(request.language) =>
        /\ fs = {} /\ written = {} /\ created = {} /\ nextTmp = 1
        /\ container = NoContainer
        /\ stdin = NotStarted
        /\ completed = NoProcess
        /\ pc = "local_return" => IsUnsupportedOutcome(ret, request.language)
        /\ pc = "compare" => IsUnsupportedOutcome(result, request.language)
        /\ \A j \in 1..Len(results) :
              results[j].error = <<"Unsupported language: ", request.language>>
        /\ \A io \in IoOutcomes :
              /\ CreateSolutionFile(request.language, io, "caller").raised
              /\ CreateSolutionFile(request.language, io, "caller").fs = fs
              /\ CreateSolutionFile(request.language, io, "caller").text
                    = <<"Unsupported language: ", request.language>>

\* run_code_locally, reached through the fallback, has returned the outcome
\* for the language id "cpp" to execute_testcase
C29_Witness ==
    /\ request.language = "cpp"
    /\ pc = "compare"
    /\ localCall # NoCall
    /\ result.error = <<"Unsupported language: ", "cpp">>
    /\ fs = {}

\* runtime_error as execute_code's loop leaves it after the results rs
RECURSIVE ExecuteCodeRuntimeError(_, _)
ExecuteCodeRuntimeError(rs, current) ==
    IF rs = <<>> THEN current
    ELSE ExecuteCodeRuntimeError(Tail(rs), CaptureError(current, rs[1].error))

====
